---- MODULE Spec2Model ----
(***************************************************************************)
(* Model of the political-risk tracker's two maintenance scripts:          *)
(*   - scripts/weekly-update.js  (interactive update session)              *)
(*   - scripts/monthly-archive.js (archive run + change-record template)   *)
(* and of the files they share: data/current.json, data/history/*.json,    *)
(* data/historical-changes.json and app/history/page.tsx.                  *)
(*                                                                         *)
(* Representation.                                                         *)
(*   - A string typed by the operator is a sequence of one-character       *)
(*     strings, so that toLowerCase, trim, parseInt and [0] are computed.  *)
(*   - A number with one decimal (overallScore, overallChange) is held as  *)
(*     an integer count of tenths; a domain score as an integer count of   *)
(*     hundredths.  Math.round(x * 10^k) / 10^k yields exactly such values.*)
(*   - A date string YYYY-MM-DD is the tuple <<y, m, d>>; padStart(2,'0')  *)
(*     makes the string order of file names the order of the tuples.       *)
(*   - An optional property that is absent is a record without the field.  *)
(***************************************************************************)
EXTENDS Integers, Sequences, FiniteSets, TLC

(* ------------------------------ bounds -------------------------------- *)
\* update sessions started in one behaviour
MaxSessions == 1
\* archive runs in one behaviour
MaxRuns == 2
\* field changes and list items the operator makes in one behaviour
MaxEdits == 1
\* items the operator enters into one findings / sources list
MaxListLen == 1

(* ----------------------------- constants ------------------------------ *)
CATEGORIES ==
  << "elections", "rule-of-law", "national-security", "regulatory-stability",
     "trade-policy", "government-contracts", "fiscal-policy", "media-freedom",
     "civil-discourse", "institutional-integrity" >>

CategoryIds == { CATEGORIES[i] : i \in 1..Len(CATEGORIES) }

\* the three domains, elections being listed in two of them
DOMAINSOverlapping ==
  [ d \in { "rule-of-law", "operating-economic", "societal-institutional" } |->
      CASE d = "rule-of-law" ->
             << "elections", "rule-of-law", "national-security" >>
        [] d = "operating-economic" ->
             << "regulatory-stability", "trade-policy", "government-contracts",
                "fiscal-policy" >>
        [] d = "societal-institutional" ->
             << "media-freedom", "civil-discourse", "elections" >> ]

DOMAINS ==
  [ d \in {"rule-of-law", "operating-economic", "societal-institutional"} |->
      CASE d = "rule-of-law" -> << "elections", "rule-of-law", "national-security" >>
        [] d = "operating-economic" ->
             << "regulatory-stability", "trade-policy", "government-contracts", "fiscal-policy" >>
        [] d = "societal-institutional" ->
             << "media-freedom", "civil-discourse", "institutional-integrity" >> ]

DomainIds == DOMAIN DOMAINS

(* --------------------------- string helpers --------------------------- *)
UpperChars == << "A","B","C","D","E","F","G","H","I","J","K","L","M",
                 "N","O","P","Q","R","S","T","U","V","W","X","Y","Z" >>
LowerChars == << "a","b","c","d","e","f","g","h","i","j","k","l","m",
                 "n","o","p","q","r","s","t","u","v","w","x","y","z" >>
DigitChars == << "0","1","2","3","4","5","6","7","8","9" >>
WhiteSpace == { " ", "\t" }

\* the lower-case letter of each upper-case letter
LowerOf ==
  [ c \in { UpperChars[k] : k \in 1..Len(UpperChars) } |->
      LowerChars[CHOOSE k \in 1..Len(UpperChars) : UpperChars[k] = c] ]

\* String.prototype.toLowerCase
toLowerCase(s) ==
  [ i \in 1..Len(s) |-> IF s[i] \in DOMAIN LowerOf THEN LowerOf[s[i]] ELSE s[i] ]

RECURSIVE trimStart(_)
trimStart(s) ==
  IF s # << >> /\ Head(s) \in WhiteSpace THEN trimStart(Tail(s)) ELSE s

RECURSIVE trimEnd(_)
trimEnd(s) ==
  IF s # << >> /\ s[Len(s)] \in WhiteSpace THEN trimEnd(SubSeq(s, 1, Len(s) - 1)) ELSE s

\* String.prototype.trim
trim(s) == trimEnd(trimStart(s))

\* the value of each decimal digit
DigitOf ==
  [ c \in { DigitChars[k] : k \in 1..Len(DigitChars) } |->
      (CHOOSE k \in 1..Len(DigitChars) : DigitChars[k] = c) - 1 ]

IsDigit(c) == c \in DOMAIN DigitOf
DigitValue(c) == DigitOf[c]

RECURSIVE DigitPrefix(_, _)
\* value of the longest run of decimal digits at the start of s, continuing acc
DigitPrefix(s, acc) ==
  IF s # << >> /\ IsDigit(Head(s))
    THEN DigitPrefix(Tail(s), acc * 10 + DigitValue(Head(s)))
    ELSE acc

\* parseInt(string) with no radix, for strings without a 0x prefix:
\* skips leading white space, reads an optional sign and the leading decimal
\* digits, ignores what follows; NaN when there is no digit.
parseInt(str) ==
  LET s    == trimStart(str)
      neg  == s # << >> /\ Head(s) = "-"
      body == IF s # << >> /\ Head(s) \in {"-", "+"} THEN Tail(s) ELSE s
  IN  IF body = << >> \/ ~IsDigit(Head(body))
        THEN [nan |-> TRUE, val |-> 0]
        ELSE [nan |-> FALSE,
              val |-> IF neg THEN 0 - DigitPrefix(body, 0) ELSE DigitPrefix(body, 0)]

(* ------------------------------ numbers ------------------------------- *)
\* Math.round(num / den) for den > 0: the nearest integer, halves towards +infinity
MathRound(num, den) == (2 * num + den) \div (2 * den)

MathMax(a, b) == IF a > b THEN a ELSE b
MathMin(a, b) == IF a < b THEN a ELSE b

RECURSIVE SumScores(_, _)
\* categories.reduce((acc, cat) => acc + scores[cat].score, 0)
SumScores(cats, scores) ==
  IF cats = << >> THEN 0
  ELSE scores[Head(cats)].score + SumScores(Tail(cats), scores)

(* ----------------------------- Score Model ---------------------------- *)
\* hundredths, cut off instead of rounded
calculateDomainScoresTruncated(scores) ==
  [ d \in DomainIds |-> (SumScores(DOMAINS[d], scores) * 100) \div Len(DOMAINS[d]) ]

\* hundredths: Math.round((sum / categories.length) * 100) / 100
calculateDomainScores(scores) ==
  [ d \in DomainIds |-> MathRound(SumScores(DOMAINS[d], scores) * 100, Len(DOMAINS[d])) ]

\* tenths, of the mean rounded to a whole number
calculateOverallScoreWhole(scores) ==
  MathRound(SumScores(CATEGORIES, scores), Len(CATEGORIES)) * 10

\* tenths: Math.round((sum / CATEGORIES.length) * 10) / 10
calculateOverallScore(scores) ==
  MathRound(SumScores(CATEGORIES, scores) * 10, Len(CATEGORIES))

\* score in tenths; the bins closed at the top instead of at the bottom
getRiskLevelInclusiveHigh(score) ==
  IF score <= 30 THEN "Low"
  ELSE IF score <= 50 THEN "Moderate"
  ELSE IF score <= 70 THEN "Elevated"
  ELSE IF score <= 90 THEN "High"
  ELSE "Severe"

\* score in tenths
getRiskLevel(score) ==
  IF score < 30 THEN "Low"
  ELSE IF score < 50 THEN "Moderate"
  ELSE IF score < 70 THEN "Elevated"
  ELSE IF score < 90 THEN "High"
  ELSE "Severe"

(* ------------------------------- dates -------------------------------- *)
\* the days on which the scripts are run (the system clock), in order
Days == << <<2026, 1, 25>>, <<2026, 2, 3>> >>

\* a < b for the strings YYYY-MM-DD, as Array.prototype.sort orders file names
DateLess(a, b) ==
  \/ a[1] < b[1]
  \/ a[1] = b[1] /\ a[2] < b[2]
  \/ a[1] = b[1] /\ a[2] = b[2] /\ a[3] < b[3]

(* ------------------------------- state -------------------------------- *)
VARIABLES
  today,      \* index into Days: the system clock
  current,    \* data/current.json
  history,    \* data/history/<date>.json: date -> snapshot, for the files that exist
  changes,    \* data/historical-changes.json: the "changes" array
  page,       \* app/history/page.tsx: the import lines and the array entries it holds
  pc,         \* weekly-update: the prompt the session is blocked on, or "idle"
  mem,        \* weekly-update: << >> or <<the in-memory current of the session>>
  selected,   \* weekly-update: the selection, in insertion order
  idx,        \* weekly-update: position in selected of the category being updated
  newItems,   \* weekly-update: newFindings / newSources of the list being entered
  outcome,    \* weekly-update: how the last session ended, and whether it had edits
  report,     \* monthly-archive: << >> or <<what the last run printed>>
  sessions,   \* number of sessions started
  runs,       \* number of archive runs
  edits       \* number of field changes and list items made

vars == << today, current, history, changes, page, pc, mem, selected, idx,
           newItems, outcome, report, sessions, runs, edits >>

sessionVars == << pc, mem, selected, idx, newItems, outcome >>
archiveVars == << history, page, report, runs >>

(* --------------------------- initial files ---------------------------- *)
TextOld == << "o" >>
TextUrl == << "u" >>

BaseScore(c) ==
  CASE c \in {"national-security", "government-contracts"} -> 4
    [] c = "regulatory-stability" -> 6
    [] OTHER -> 5

CategoryScore0(c) ==
  [ score |-> BaseScore(c), trend |-> "stable", keyFindings |-> << TextOld >>,
    sources |-> << TextUrl >>, lastUpdated |-> <<2026, 1, 10>> ]

\* the same entry without the optional property sources
WithoutSources(cat) == [ f \in (DOMAIN cat) \ {"sources"} |-> cat[f] ]

Assessment(scores, date) ==
  [ assessmentDate |-> date, assessmentPeriod |-> "January 2026", scores |-> scores,
    domainScores |-> calculateDomainScores(scores),
    overallScore |-> calculateOverallScore(scores),
    riskLevel |-> getRiskLevel(calculateOverallScore(scores)) ]

Scores0 == [ c \in CategoryIds |-> CategoryScore0(c) ]

\* the persisted stores a behaviour may start from: aggregates consistent with the
\* scores; in the second one category has no sources property
InitialStores ==
  { Assessment(Scores0, <<2026, 1, 10>>),
    Assessment([Scores0 EXCEPT !["trade-policy"] = WithoutSources(@)], <<2026, 1, 10>>) }

StoreHasSources(cur) == \A c \in CategoryIds : "sources" \in DOMAIN cur.scores[c]

(* --------------------------- monthly-archive -------------------------- *)
\* `${year}-${month}-20` of the system clock
getDateString == << Days[today][1], Days[today][2], 20 >>

\* `${months[now.getMonth()]} ${now.getFullYear()}`, kept as <<year, month>>
getMonthYear == << Days[today][1], Days[today][2] >>

\* history<year><month>, kept as <<year, month>>
getImportName(dateStr) == << dateStr[1], dateStr[2] >>

\* the snapshot with the overall score archived as a whole number
createHistorySnapshotWholeScore(cur, dateStr) ==
  [ date |-> dateStr,
    scores |-> [ c \in DOMAIN cur.scores |-> cur.scores[c].score ],
    domainScores |-> cur.domainScores,
    overallScore |-> MathRound(cur.overallScore, 10) * 10,
    riskLevel |-> cur.riskLevel ]

\* the snapshot with the categories' trends copied along with the scores
createHistorySnapshotWithTrends(cur, dateStr) ==
  [ date |-> dateStr,
    scores |-> [ c \in DOMAIN cur.scores |-> cur.scores[c].score ],
    trends |-> [ c \in DOMAIN cur.scores |-> cur.scores[c].trend ],
    domainScores |-> cur.domainScores,
    overallScore |-> cur.overallScore,
    riskLevel |-> cur.riskLevel ]

createHistorySnapshot(cur, dateStr) ==
  [ date |-> dateStr,
    scores |-> [ c \in DOMAIN cur.scores |-> cur.scores[c].score ],
    domainScores |-> cur.domainScores,
    overallScore |-> cur.overallScore,
    riskLevel |-> cur.riskLevel ]

\* mutant of existsSync: tests a path that is never there
existsSyncWrongPath(hist, dateStr) == dateStr \in {}

\* fs.existsSync(snapshotPath)
existsSync(hist, dateStr) == dateStr \in DOMAIN hist

\* fs.writeFileSync(snapshotPath, ...): creates the file or replaces its content
writeSnapshot(hist, dateStr, snapshot) ==
  [ d \in (DOMAIN hist) \cup {dateStr} |-> IF d = dateStr THEN snapshot ELSE hist[d] ]

\* mutant of archiveStep: writes the snapshot before it looks for the file
archiveStepWriteFirst(hist, cur, dateStr) ==
  [ history |-> writeSnapshot(hist, dateStr, createHistorySnapshot(cur, dateStr)),
    log |-> IF existsSync(hist, dateStr) THEN "SKIP" ELSE "OK" ]

\* Step 1 of main: the archive after the step, and what is logged
archiveStep(hist, cur, dateStr) ==
  IF existsSync(hist, dateStr)
    THEN [ history |-> hist, log |-> "SKIP" ]
    ELSE [ history |-> writeSnapshot(hist, dateStr, createHistorySnapshot(cur, dateStr)),
           log |-> "OK" ]

\* the page after updateHistoryPage, and the value it returns
updateHistoryPage(pg, dateStr) ==
  LET importName == getImportName(dateStr) IN
  IF importName \in pg.imports \cup pg.entries
    THEN [ page |-> pg, updated |-> FALSE ]
    ELSE [ page |-> [ imports |-> IF pg.imports # {} THEN pg.imports \cup {importName}
                                                     ELSE pg.imports,
                      entries |-> pg.entries \cup {importName} ],
           updated |-> TRUE ]

\* << >> for null, else <<the last entry of the change log>>
getPreviousMonthData(changesData) ==
  IF Len(changesData) > 0 THEN << changesData[Len(changesData)] >> ELSE << >>

\* the file names sorted the other way round: the first file of the directory
firstHistoryFile(hist) ==
  CHOOSE d \in DOMAIN hist : \A e \in DOMAIN hist : e = d \/ DateLess(d, e)

\* fs.readdirSync(HISTORY_DIR).sort() and its last element
lastHistoryFile(hist) ==
  CHOOSE d \in DOMAIN hist : \A e \in DOMAIN hist : e = d \/ DateLess(e, d)

RECURSIVE categoryChangesOf(_, _, _)
\* the loop over Object.entries(current.scores), in the order of the keys
categoryChangesOf(cats, cur, lastSnapshot) ==
  IF cats = << >> THEN << >>
  ELSE LET c == Head(cats)
           oldScore == lastSnapshot.scores[c]
           newScore == cur.scores[c].score
           rest == categoryChangesOf(Tail(cats), cur, lastSnapshot)
       IN  IF oldScore # newScore
             THEN << [ category |-> c, from |-> oldScore, to |-> newScore ] >> \o rest
             ELSE rest

\* mutant of overallChangeOf: the difference taken the other way round
overallChangeReversed(cur, prevMonth) ==
  LET prevScore == IF prevMonth # << >> THEN prevMonth[1].overallScore
                                        ELSE cur.overallScore
  IN  MathRound(prevScore - cur.overallScore, 1)

\* tenths: Math.round((current.overallScore - prevScore) * 10) / 10
overallChangeOf(cur, prevMonth) ==
  LET prevScore == IF prevMonth # << >> THEN prevMonth[1].overallScore
                                        ELSE cur.overallScore
  IN  MathRound(cur.overallScore - prevScore, 1)

generateChangesTemplate(cur, dateStr, monthYear, changesData, hist) ==
  LET prevMonth == getPreviousMonthData(changesData) IN
  [ period |-> monthYear,
    date |-> dateStr,
    overallScore |-> cur.overallScore,
    overallChange |-> << overallChangeOf(cur, prevMonth) >>,
    categoryChanges |->
      IF prevMonth # << >>
        THEN categoryChangesOf(CATEGORIES, cur, hist[lastHistoryFile(hist)])
        ELSE << >> ]

\* main with the generated change record added to historical-changes.json
ArchiveRunAppendsTemplate ==
  /\ pc = "idle"
  /\ runs < MaxRuns
  /\ LET dateStr == getDateString
         step1 == archiveStep(history, current, dateStr)
         step2 == updateHistoryPage(page, dateStr)
     IN  /\ history' = step1.history
         /\ page' = step2.page
         /\ report' = << [ date |-> dateStr,
                           snapshot |-> step1.log,
                           page |-> IF step2.updated THEN "OK" ELSE "SKIP",
                           template |-> generateChangesTemplate(current, dateStr,
                                          getMonthYear, changes, step1.history) ] >>
         /\ changes' = Append(changes, [ date |-> dateStr,
                                         overallScore |-> current.overallScore ])
  /\ runs' = runs + 1
  /\ UNCHANGED << today, current, sessionVars, sessions, edits >>

\* main with a return after the [SKIP] line of step 1
ArchiveRunStopsAtSkip ==
  /\ pc = "idle"
  /\ runs < MaxRuns
  /\ LET dateStr == getDateString
         step1 == archiveStep(history, current, dateStr)
         step2 == updateHistoryPage(page, dateStr)
     IN  IF step1.log = "SKIP"
           THEN /\ history' = history
                /\ page' = page
                /\ report' = << [ date |-> dateStr, snapshot |-> "SKIP" ] >>
           ELSE /\ history' = step1.history
                /\ page' = step2.page
                /\ report' = << [ date |-> dateStr,
                                  snapshot |-> step1.log,
                                  page |-> IF step2.updated THEN "OK" ELSE "SKIP",
                                  template |-> generateChangesTemplate(current, dateStr,
                                                 getMonthYear, changes, step1.history) ] >>
  /\ runs' = runs + 1
  /\ UNCHANGED << today, current, changes, sessionVars, sessions, edits >>

\* node scripts/monthly-archive.js: main, from the read of current.json to the
\* printed template; the script has no await, the run is one step.  The operator
\* runs one script at a time: no archive run while an update session is open.
ArchiveRun ==
  /\ pc = "idle"
  /\ runs < MaxRuns
  /\ LET dateStr == getDateString
         step1 == archiveStep(history, current, dateStr)
         step2 == updateHistoryPage(page, dateStr)
     IN  /\ history' = step1.history
         /\ page' = step2.page
         /\ report' = << [ date |-> dateStr,
                           snapshot |-> step1.log,
                           page |-> IF step2.updated THEN "OK" ELSE "SKIP",
                           template |-> generateChangesTemplate(current, dateStr,
                                          getMonthYear, changes, step1.history) ] >>
  /\ runs' = runs + 1
  /\ UNCHANGED << today, current, changes, sessionVars, sessions, edits >>

\* between two scripts the system clock moves on to the next day in Days
AdvanceClock ==
  /\ pc = "idle"
  /\ today < Len(Days)
  /\ today' = today + 1
  /\ UNCHANGED << current, changes, sessionVars, archiveVars, sessions, edits >>

(* ---------------------------- weekly-update --------------------------- *)
\* `${year}-${month}-${day}` of the system clock
getDateStringToday == Days[today]

\* obj.f = v: sets the property, adding it when the object has none
SetField(obj, f, v) == [ g \in (DOMAIN obj) \cup {f} |-> IF g = f THEN v ELSE obj[g] ]

\* selected.push(cat): the category is added whether it is selected or not
SetAddAgain(sel, cat) == Append(sel, cat)

\* selected.add(cat) on a Set, which keeps insertion order
SetAdd(sel, cat) ==
  IF \E i \in 1..Len(sel) : sel[i] = cat THEN sel ELSE Append(sel, cat)

RECURSIVE SetAddAll(_, _)
\* CATEGORIES.forEach(cat => selected.add(cat))
SetAddAll(sel, cats) ==
  IF cats = << >> THEN sel ELSE SetAddAll(SetAdd(sel, Head(cats)), Tail(cats))

\* mutant of applyScore: the parsed number is stored without the clamp
applyScoreUnclamped(cat, newScore) ==
  IF newScore # << >> /\ ~parseInt(newScore).nan
    THEN SetField(cat, "score", parseInt(newScore).val)
    ELSE cat

\* mutant of applyScore: no isNaN test, a response without a number is clamped too
applyScoreWithoutNaNTest(cat, newScore) ==
  IF newScore # << >>
    THEN SetField(cat, "score", MathMax(1, MathMin(10, parseInt(newScore).val)))
    ELSE cat

\* the score prompt: Math.max(1, Math.min(10, parseInt(newScore))) when it parses
applyScore(cat, newScore) ==
  IF newScore # << >> /\ ~parseInt(newScore).nan
    THEN SetField(cat, "score", MathMax(1, MathMin(10, parseInt(newScore).val)))
    ELSE cat

\* trendMap[key]: "" for undefined (keys that name no inherited property)
trendMap(key) ==
  CASE key = << "i" >> -> "increasing"
    [] key = << "s" >> -> "stable"
    [] key = << "d" >> -> "decreasing"
    [] OTHER -> ""

\* trendMap[trendInput] || trendMap[trendInput[0]], the case of the input kept
trendOfCaseSensitive(trendInput) ==
  IF trendMap(trendInput) # "" THEN trendMap(trendInput)
  ELSE trendMap(<< trendInput[1] >>)

\* trendMap[trendInput.toLowerCase()] || trendMap[trendInput.toLowerCase()[0]]
trendOf(trendInput) ==
  LET lower == toLowerCase(trendInput) IN
  IF trendMap(lower) # "" THEN trendMap(lower) ELSE trendMap(<< lower[1] >>)

\* the trend prompt
applyTrend(cat, trendInput) ==
  IF trendInput # << >> /\ trendOf(trendInput) # ""
    THEN SetField(cat, "trend", trendOf(trendInput))
    ELSE cat

\* answer.toLowerCase() === 'y'
isYes(answer) == toLowerCase(answer) = << "y" >>

\* the save is declined by every response that begins with n or N
saveConfirmedFirstLetter(confirm) ==
  ~(confirm # << >> /\ toLowerCase(<< confirm[1] >>) = << "n" >>)

\* mutant of saveConfirmed: the comparison without toLowerCase
saveConfirmedCaseSensitive(confirm) == confirm # << "n" >>

\* confirm.toLowerCase() !== 'n'
saveConfirmed(confirm) == toLowerCase(confirm) # << "n" >>

\* mutant of recompute: the risk level is not derived again
recomputeWithoutRiskLevel(m) ==
  LET ds == calculateDomainScores(m.scores)
      os == calculateOverallScore(m.scores)
  IN  [ m EXCEPT !.domainScores = ds, !.overallScore = os,
                 !.assessmentDate = getDateStringToday ]

\* Recalculate aggregate scores
recompute(m) ==
  LET ds == calculateDomainScores(m.scores)
      os == calculateOverallScore(m.scores)
  IN  [ m EXCEPT !.domainScores = ds, !.overallScore = os,
                 !.riskLevel = getRiskLevel(os), !.assessmentDate = getDateStringToday ]

\* the session's in-memory current, and the category updateCategory works on
Mem == mem[1]
CategoryId == selected[idx]
Cat == Mem.scores[CategoryId]
WithCat(cat) == [ Mem EXCEPT !.scores[CategoryId] = cat ]

\* the responses the operator gives
SelectResponses ==
  { << "q" >>, << "Q" >>, << "0" >>, << "1" >>, << "5" >>, << "1", "1" >>, << "x" >> }
\* the same without the request for all categories
SelectResponsesSome == SelectResponses \ { << "0" >> }
ScoreResponses ==
  { << >>, << "a", "b", "c" >>, << "0" >>, << "-", "3" >>, << "1", "1" >>,
    << "7" >>, << "7", "u", "p" >> }
TrendResponses ==
  { << >>, << "x" >>, << "i" >>, << "S" >>, << "d" >>,
    << "I","n","c","r","e","a","s","i","n","g" >>, << "s","t","a","b","l","e" >>,
    << "D","E","C","R","E","A","S","I","N","G" >>,
    << "d","r","o","p","p","i","n","g" >> }
YesNoResponses == { << >>, << "y" >>, << "Y" >>, << "y", "e", "s" >> }
ItemResponses == { << >>, << " " >>, << " ", "a", " " >> }
ConfirmResponses == { << >>, << "n" >>, << "N" >>, << "n", "o" >> }

\* the categories whose fields the operator changes; for the others, and for
\* every category of a session that selected all ten, the operator presses Enter
Editable == { "elections" }

\* the operator may give a response now: one that changes nothing is always
\* possible, one that changes a field or adds a list item while changes are left
MayRespond(changes_it) ==
  \/ ~changes_it
  \/ edits < MaxEdits /\ CategoryId \in Editable /\ Len(selected) < Len(CATEGORIES)

Spent(changes_it) == IF changes_it THEN edits + 1 ELSE edits

\* some category's score, trend, findings or sources differ between two stores
FieldsDiffer(a, b) ==
  \E c \in CategoryIds :
    [ f \in (DOMAIN a.scores[c]) \ {"lastUpdated"} |-> a.scores[c][f] ]
      # [ f \in (DOMAIN b.scores[c]) \ {"lastUpdated"} |-> b.scores[c][f] ]

\* the process ends: what its last console lines say
EndSession(result, m) ==
  /\ pc' = "idle"
  /\ mem' = << >>
  /\ selected' = << >>
  /\ idx' = 0
  /\ newItems' = << >>
  /\ outcome' = [ result |-> result, edited |-> FieldsDiffer(m, current) ]

\* main up to the first prompt of selectCategories
StartSession ==
  /\ pc = "idle"
  /\ sessions < MaxSessions
  /\ sessions' = sessions + 1
  /\ mem' = << current >>
  /\ selected' = << >>
  /\ idx' = 0
  /\ newItems' = << >>
  /\ outcome' = [ result |-> "running", edited |-> FALSE ]
  /\ pc' = "select"
  /\ UNCHANGED << today, current, changes, archiveVars, edits >>

\* selectCategories has returned sel: an empty selection goes on to the save prompt
afterSelectionWithoutEmptyTest(sel) ==
  IF Len(sel) = 0
    THEN /\ selected' = sel
         /\ idx' = 0
         /\ pc' = "confirm"
         /\ UNCHANGED << mem, newItems, outcome >>
    ELSE /\ selected' = sel
         /\ idx' = 1
         /\ pc' = "score"
         /\ UNCHANGED << mem, newItems, outcome >>

\* selectCategories has returned sel: main up to the first prompt of updateCategory
afterSelection(sel) ==
  IF Len(sel) = 0
    THEN EndSession("NoSelection", Mem)
    ELSE /\ selected' = sel
         /\ idx' = 1
         /\ pc' = "score"
         /\ UNCHANGED << mem, newItems, outcome >>

\* one response to 'Select category (number, 0 for all, q to finish): '
AnswerSelect(input) ==
  /\ pc = "select"
  /\ LET num == parseInt(input) IN
     IF toLowerCase(input) = << "q" >>
       THEN afterSelection(selected)
     ELSE IF ~num.nan /\ num.val = 0
       THEN afterSelection(SetAddAll(selected, CATEGORIES))
     ELSE IF ~num.nan /\ num.val >= 1 /\ num.val <= Len(CATEGORIES)
       THEN /\ selected' = SetAdd(selected, CATEGORIES[num.val])
            /\ UNCHANGED << pc, mem, idx, newItems, outcome >>
     ELSE UNCHANGED sessionVars
  /\ UNCHANGED << today, current, changes, archiveVars, sessions, edits >>

\* one response to 'New score (1-10, Enter to keep ...): '
AnswerScore(newScore) ==
  /\ pc = "score"
  /\ MayRespond(applyScore(Cat, newScore) # Cat)
  /\ edits' = Spent(applyScore(Cat, newScore) # Cat)
  /\ mem' = << WithCat(applyScore(Cat, newScore)) >>
  /\ pc' = "trend"
  /\ UNCHANGED << today, current, changes, archiveVars, sessions,
                  selected, idx, newItems, outcome >>

\* one response to 'Trend [i]ncreasing/[s]table/[d]ecreasing (Enter to keep ...): '
AnswerTrend(trendInput) ==
  /\ pc = "trend"
  /\ MayRespond(applyTrend(Cat, trendInput) # Cat)
  /\ edits' = Spent(applyTrend(Cat, trendInput) # Cat)
  /\ mem' = << WithCat(applyTrend(Cat, trendInput)) >>
  /\ pc' = "findingsQ"
  /\ UNCHANGED << today, current, changes, archiveVars, sessions,
                  selected, idx, newItems, outcome >>

\* updateCategory with the list of the current sources left out
toSourcesUnchecked(m) ==
  /\ mem' = << m >>
  /\ pc' = "sourcesQ"
  /\ newItems' = << >>
  /\ UNCHANGED << selected, idx, outcome >>

\* updateCategory from 'Current sources:' to the prompt 'Update sources? [y/N]: ';
\* cat.sources.forEach throws when the category has no sources, and
\* main().catch(console.error) ends the session
toSources(m) ==
  IF "sources" \in DOMAIN m.scores[CategoryId]
    THEN /\ mem' = << m >>
         /\ pc' = "sourcesQ"
         /\ newItems' = << >>
         /\ UNCHANGED << selected, idx, outcome >>
    ELSE EndSession("Error", m)

\* updateCategory without the lastUpdated stamp
afterCategoryWithoutStamp(m) ==
  /\ newItems' = << >>
  /\ UNCHANGED << selected, outcome >>
  /\ IF idx < Len(selected)
       THEN /\ mem' = << m >>
            /\ idx' = idx + 1
            /\ pc' = "score"
       ELSE /\ mem' = << recompute(m) >>
            /\ idx' = idx
            /\ pc' = "confirm"

\* main without the recalculation before the save prompt
afterCategoryWithoutRecompute(m) ==
  LET stamped == [ m EXCEPT !.scores[CategoryId] =
                     SetField(@, "lastUpdated", getDateStringToday) ]
  IN  /\ newItems' = << >>
      /\ UNCHANGED << selected, outcome >>
      /\ mem' = << stamped >>
      /\ IF idx < Len(selected)
           THEN idx' = idx + 1 /\ pc' = "score"
           ELSE idx' = idx /\ pc' = "confirm"

\* updateCategory from the lastUpdated stamp to the next prompt: the next
\* category's score prompt, or the recalculation and 'Save changes? [Y/n]: '
afterCategory(m) ==
  LET stamped == [ m EXCEPT !.scores[CategoryId] =
                     SetField(@, "lastUpdated", getDateStringToday) ]
  IN  /\ newItems' = << >>
      /\ UNCHANGED << selected, outcome >>
      /\ IF idx < Len(selected)
           THEN /\ mem' = << stamped >>
                /\ idx' = idx + 1
                /\ pc' = "score"
           ELSE /\ mem' = << recompute(stamped) >>
                /\ idx' = idx
                /\ pc' = "confirm"

\* one response to 'Update findings? [y/N]: '
AnswerUpdateFindings(updateFindings) ==
  /\ pc = "findingsQ"
  /\ IF isYes(updateFindings)
       THEN /\ pc' = "finding"
            /\ newItems' = << >>
            /\ UNCHANGED << mem, selected, idx, outcome >>
       ELSE toSources(Mem)
  /\ UNCHANGED << today, current, changes, archiveVars, sessions, edits >>

\* one response to 'Finding <i>: '
AnswerFinding(finding) ==
  /\ pc = "finding"
  /\ MayRespond(trim(finding) # << >>)
  /\ trim(finding) = << >> \/ Len(newItems) < MaxListLen
  /\ edits' = Spent(trim(finding) # << >>)
  /\ IF trim(finding) = << >>
       THEN toSources(IF Len(newItems) > 0
                        THEN WithCat(SetField(Cat, "keyFindings", newItems))
                        ELSE Mem)
       ELSE /\ newItems' = Append(newItems, trim(finding))
            /\ UNCHANGED << pc, mem, selected, idx, outcome >>
  /\ UNCHANGED << today, current, changes, archiveVars, sessions >>

\* one response to 'Update sources? [y/N]: '
AnswerUpdateSources(updateSources) ==
  /\ pc = "sourcesQ"
  /\ IF isYes(updateSources)
       THEN /\ pc' = "source"
            /\ newItems' = << >>
            /\ UNCHANGED << mem, selected, idx, outcome >>
       ELSE afterCategory(Mem)
  /\ UNCHANGED << today, current, changes, archiveVars, sessions, edits >>

\* one response to 'Source <i>: '
AnswerSource(source) ==
  /\ pc = "source"
  /\ MayRespond(trim(source) # << >>)
  /\ trim(source) = << >> \/ Len(newItems) < MaxListLen
  /\ edits' = Spent(trim(source) # << >>)
  /\ IF trim(source) = << >>
       THEN afterCategory(IF Len(newItems) > 0
                            THEN WithCat(SetField(Cat, "sources", newItems))
                            ELSE Mem)
       ELSE /\ newItems' = Append(newItems, trim(source))
            /\ UNCHANGED << pc, mem, selected, idx, outcome >>
  /\ UNCHANGED << today, current, changes, archiveVars, sessions >>

\* one response to 'Save changes? [Y/n]: '
AnswerConfirm(confirm) ==
  /\ pc = "confirm"
  /\ IF saveConfirmed(confirm)
       THEN /\ current' = Mem
            /\ EndSession("Saved", Mem)
       ELSE /\ current' = current
            /\ EndSession("Discarded", Mem)
  /\ UNCHANGED << today, changes, archiveVars, sessions, edits >>

(* --------------------------- specification ---------------------------- *)
\* the snapshot archived in December 2025, when elections scored 4
Snapshot202512 ==
  createHistorySnapshot(
    Assessment([Scores0 EXCEPT !["elections"] = SetField(@, "score", 4)], <<2025, 12, 15>>),
    <<2025, 12, 20>>)

\* the archive and the change log a behaviour may start from: nothing archived
\* yet, or December archived and its change record added as generated
InitialArchives ==
  { [ history |-> << >>, changes |-> << >> ],
    [ history |-> [ d \in { <<2025, 12, 20>> } |-> Snapshot202512 ],
      changes |-> << [ date |-> <<2025, 12, 20>>,
                       overallScore |-> Snapshot202512.overallScore ] >> ] }

Init ==
  /\ today = 1
  /\ current \in InitialStores
  /\ \E a \in InitialArchives : history = a.history /\ changes = a.changes
  /\ StoreHasSources(current) \/ history = << >>
  /\ page = [ imports |-> { getImportName(d) : d \in DOMAIN history },
              entries |-> { getImportName(d) : d \in DOMAIN history } ]
  /\ pc = "idle"
  /\ mem = << >>
  /\ selected = << >>
  /\ idx = 0
  /\ newItems = << >>
  /\ outcome = [ result |-> "none", edited |-> FALSE ]
  /\ report = << >>
  /\ sessions = 0
  /\ runs = 0
  /\ edits = 0

Next ==
  \/ AdvanceClock
  \/ ArchiveRun
  \/ StartSession
  \/ \E input \in SelectResponsesSome : AnswerSelect(input)
  \/ \E newScore \in ScoreResponses : AnswerScore(newScore)
  \/ \E trendInput \in TrendResponses : AnswerTrend(trendInput)
  \/ \E updateFindings \in YesNoResponses : AnswerUpdateFindings(updateFindings)
  \/ \E finding \in ItemResponses : AnswerFinding(finding)
  \/ \E updateSources \in YesNoResponses : AnswerUpdateSources(updateSources)
  \/ \E source \in ItemResponses : AnswerSource(source)
  \/ \E confirm \in ConfirmResponses : AnswerConfirm(confirm)

Spec == Init /\ [][Next]_vars

(* ------------- specification: the update sessions on their own ------------- *)
\* the responses to the save prompt, with a blank before the n and a y
ConfirmResponsesAll == ConfirmResponses \cup { << " ", "n" >>, << "y" >> }

\* sessions one after the other, the request for all categories included
SessionNext ==
  \/ StartSession
  \/ \E input \in SelectResponses : AnswerSelect(input)
  \/ \E newScore \in ScoreResponses : AnswerScore(newScore)
  \/ \E trendInput \in TrendResponses : AnswerTrend(trendInput)
  \/ \E updateFindings \in YesNoResponses : AnswerUpdateFindings(updateFindings)
  \/ \E finding \in ItemResponses : AnswerFinding(finding)
  \/ \E updateSources \in YesNoResponses : AnswerUpdateSources(updateSources)
  \/ \E source \in ItemResponses : AnswerSource(source)
  \/ \E confirm \in ConfirmResponsesAll : AnswerConfirm(confirm)

SessionSpec == Init /\ [][SessionNext]_vars

(* ---------------- specification: the selection on its own ------------------ *)
\* the responses to the selection prompt, with the last valid number, a number
\* after a blank, a negative number and a number followed by letters
SelectResponsesAll ==
  SelectResponses \cup { << "1", "0" >>, << " ", "2" >>, << "-", "1" >>,
                         << "5", "t", "h" >> }

\* main up to the return of selectCategories
SelectNext ==
  \/ StartSession
  \/ \E input \in SelectResponsesAll : AnswerSelect(input)

SelectSpec == Init /\ [][SelectNext]_vars

(* ------------- specification: the recalculation, for every scores ------------- *)
\* the number of categories whose score differs from the others' in the working
\* copies the recalculation is applied to
MaxChanged == 1

\* the score assignments: one integer of 1..10 for every category, the same for
\* all but at most MaxChanged categories, which share another one
ScoreAssignments ==
  { [ c \in CategoryIds |-> IF c \in S THEN v ELSE b ] :
      S \in { T \in SUBSET CategoryIds : Cardinality(T) <= MaxChanged },
      b \in 1..10, v \in 1..10 }

\* the working copy of a session that selected all categories and is at the
\* last prompt of the last one: the scores are f, the earlier categories carry
\* the session's date, the aggregates are still those that were loaded
WorkingCopy(loaded, f) ==
  [ loaded EXCEPT !.scores =
      [ c \in CategoryIds |->
          [ loaded.scores[c] EXCEPT
              !.score = f[c],
              !.lastUpdated = IF c = CATEGORIES[Len(CATEGORIES)]
                                THEN @ ELSE getDateStringToday ] ] ]

\* main at 'Update sources? [y/N]: ' of the last of all ten categories
RecalcInit ==
  /\ today = 1
  /\ current = Assessment(Scores0, <<2026, 1, 10>>)
  /\ history = << >>
  /\ changes = << >>
  /\ page = [ imports |-> {}, entries |-> {} ]
  /\ pc = "sourcesQ"
  /\ \E f \in ScoreAssignments : mem = << WorkingCopy(current, f) >>
  /\ selected = CATEGORIES
  /\ idx = Len(CATEGORIES)
  /\ newItems = << >>
  /\ outcome = [ result |-> "running", edited |-> FALSE ]
  /\ report = << >>
  /\ sessions = 1
  /\ runs = 0
  /\ edits = 0

RecalcNext ==
  \/ \E updateSources \in YesNoResponses : AnswerUpdateSources(updateSources)
  \/ \E source \in ItemResponses : AnswerSource(source)
  \/ \E confirm \in ConfirmResponses : AnswerConfirm(confirm)

RecalcSpec == RecalcInit /\ [][RecalcNext]_vars

(* ------ specification: the save as the file system carries it out ------ *)
\* current.json just after fs.writeFileSync has opened it for writing: the open
\* truncates the file, which holds no text until the data is written
EmptyFile == << >>

\* one response to 'Save changes? [Y/n]: ', up to the open of current.json
AnswerConfirmOpen(confirm) ==
  /\ pc = "confirm"
  /\ IF saveConfirmed(confirm)
       THEN /\ current' = EmptyFile
            /\ pc' = "writing"
            /\ outcome' = [ result |-> "writing", edited |-> FieldsDiffer(Mem, current) ]
            /\ UNCHANGED << mem, selected, idx, newItems >>
       ELSE /\ current' = current
            /\ EndSession("Discarded", Mem)
  /\ UNCHANGED << today, changes, archiveVars, sessions, edits >>

\* fs.writeFileSync writes the text and closes the file; main ends
WriteFileData ==
  /\ pc = "writing"
  /\ current' = Mem
  /\ pc' = "idle"
  /\ mem' = << >>
  /\ selected' = << >>
  /\ idx' = 0
  /\ newItems' = << >>
  /\ outcome' = [ result |-> "Saved", edited |-> outcome.edited ]
  /\ UNCHANGED << today, changes, archiveVars, sessions, edits >>

SaveNext ==
  \/ StartSession
  \/ \E input \in SelectResponsesSome : AnswerSelect(input)
  \/ \E newScore \in ScoreResponses : AnswerScore(newScore)
  \/ \E trendInput \in TrendResponses : AnswerTrend(trendInput)
  \/ \E updateFindings \in YesNoResponses : AnswerUpdateFindings(updateFindings)
  \/ \E finding \in ItemResponses : AnswerFinding(finding)
  \/ \E updateSources \in YesNoResponses : AnswerUpdateSources(updateSources)
  \/ \E source \in ItemResponses : AnswerSource(source)
  \/ \E confirm \in ConfirmResponses : AnswerConfirmOpen(confirm)
  \/ WriteFileData

SaveSpec == Init /\ [][SaveNext]_vars

(* ---------- specification: the scripts on a store that is corrupt ---------- *)
\* a current.json that was edited by hand: elections has a score outside [1,10];
\* the aggregates are those of the scores before the edit
CorruptStores ==
  { [ Assessment(Scores0, <<2026, 1, 10>>) EXCEPT !.scores["elections"].score = 12 ] }

LoadInit ==
  /\ today = 1
  /\ current \in CorruptStores
  /\ history = << >>
  /\ changes = << >>
  /\ page = [ imports |-> {}, entries |-> {} ]
  /\ pc = "idle"
  /\ mem = << >>
  /\ selected = << >>
  /\ idx = 0
  /\ newItems = << >>
  /\ outcome = [ result |-> "none", edited |-> FALSE ]
  /\ report = << >>
  /\ sessions = 0
  /\ runs = 0
  /\ edits = 0

LoadSpec == LoadInit /\ [][Next]_vars

(* ------ specification: two archive runs started for the same period ------ *)
\* what a run of monthly-archive.js holds before its first statement
RunStarted == [ at |-> "read", date |-> << >>, loaded |-> << >>, log |-> "none" ]

\* main: the read of current.json and getDateString()
RunRead(p) ==
  /\ report[p].at = "read"
  /\ report' = [ report EXCEPT ![p] = [ at |-> "exists", date |-> getDateString,
                                        loaded |-> << current >>, log |-> "none" ] ]
  /\ UNCHANGED << today, current, history, changes, page, sessionVars, sessions,
                  runs, edits >>

\* main, step 1: fs.existsSync(snapshotPath) and the branch taken on its value
RunExists(p) ==
  /\ report[p].at = "exists"
  /\ report' = [ report EXCEPT ![p] =
                   IF existsSync(history, report[p].date)
                     THEN [ @ EXCEPT !.at = "page", !.log = "SKIP" ]
                     ELSE [ @ EXCEPT !.at = "write" ] ]
  /\ UNCHANGED << today, current, history, changes, page, sessionVars, sessions,
                  runs, edits >>

\* main, step 1: createHistorySnapshot and fs.writeFileSync(snapshotPath, ...)
RunWrite(p) ==
  /\ report[p].at = "write"
  /\ history' = writeSnapshot(history, report[p].date,
                              createHistorySnapshot(report[p].loaded[1], report[p].date))
  /\ report' = [ report EXCEPT ![p] = [ @ EXCEPT !.at = "page", !.log = "OK" ] ]
  /\ UNCHANGED << today, current, changes, page, sessionVars, sessions, runs, edits >>

\* main, steps 2 and 3: the history page and the printed template
RunPage(p) ==
  /\ report[p].at = "page"
  /\ page' = updateHistoryPage(page, report[p].date).page
  /\ report' = [ report EXCEPT ![p] = [ @ EXCEPT !.at = "done" ] ]
  /\ runs' = runs + 1
  /\ UNCHANGED << today, current, history, changes, sessionVars, sessions, edits >>

\* two runs are started by two operators (or twice by one, in two terminals)
RaceInit ==
  /\ today = 1
  /\ current \in InitialStores
  /\ \E a \in InitialArchives : history = a.history /\ changes = a.changes
  /\ StoreHasSources(current) \/ history = << >>
  /\ page = [ imports |-> { getImportName(d) : d \in DOMAIN history },
              entries |-> { getImportName(d) : d \in DOMAIN history } ]
  /\ pc = "idle"
  /\ mem = << >>
  /\ selected = << >>
  /\ idx = 0
  /\ newItems = << >>
  /\ outcome = [ result |-> "none", edited |-> FALSE ]
  /\ report = << RunStarted, RunStarted >>
  /\ sessions = 0
  /\ runs = 0
  /\ edits = 0

RaceNext ==
  \/ \E p \in DOMAIN report : RunRead(p)
  \/ \E p \in DOMAIN report : RunExists(p)
  \/ \E p \in DOMAIN report : RunWrite(p)
  \/ \E p \in DOMAIN report : RunPage(p)
  \/ StartSession
  \/ \E input \in SelectResponsesSome : AnswerSelect(input)
  \/ \E newScore \in ScoreResponses : AnswerScore(newScore)
  \/ \E trendInput \in TrendResponses : AnswerTrend(trendInput)
  \/ \E updateFindings \in YesNoResponses : AnswerUpdateFindings(updateFindings)
  \/ \E finding \in ItemResponses : AnswerFinding(finding)
  \/ \E updateSources \in YesNoResponses : AnswerUpdateSources(updateSources)
  \/ \E source \in ItemResponses : AnswerSource(source)
  \/ \E confirm \in ConfirmResponses : AnswerConfirm(confirm)

RaceSpec == RaceInit /\ [][RaceNext]_vars

(* ======================= claims: the archive run ====================== *)
\* what the last archive run printed
Report == report[1]
Template == Report.template

\* the dates archived before the period date d, and the latest snapshot among them
DatesBefore(d) == { e \in DOMAIN history : DateLess(e, d) }
SnapshotBefore(d) ==
  history[CHOOSE e \in DatesBefore(d) : \A f \in DatesBefore(d) : f = e \/ DateLess(f, e)]

\* the entries {category, from, to} of a sequence of category changes
Entries(seq) == { seq[i] : i \in 1..Len(seq) }

\* the categories whose score differs between two score maps, as entries
ScoreDifferences(old, new) ==
  { [ category |-> c, from |-> old[c], to |-> new[c] ] :
      c \in { x \in CategoryIds : old[x] # new[x] } }

\* C1 (as claimed): a run that archives a new period date, with an earlier period
\* already archived, lists in categoryChanges exactly the categories whose score
\* differs from the immediately preceding snapshot, with from = the preceding
\* score and to = the current score (the score the run has just archived).
C1_ChangesAgainstPrecedingSnapshot ==
  (report # << >> /\ Report.snapshot = "OK" /\ DatesBefore(Report.date) # {})
    => Entries(Template.categoryChanges)
         = ScoreDifferences(SnapshotBefore(Report.date).scores,
                            history[Report.date].scores)

\* C2 (as claimed): the first-ever archive (no prior snapshot) yields
\* overallChange = null and categoryChanges = [].
C2_FirstArchiveHasNullChange ==
  (report # << >> /\ Report.snapshot = "OK" /\ DOMAIN history = { Report.date })
    => (Template.overallChange = << >> /\ Template.categoryChanges = << >>)

C4_ArchiveIdempotent ==
  [][ (runs' = runs + 1 /\ getDateString \in DOMAIN history)
        => (history' = history /\ report'[1].snapshot = "SKIP"
            /\ report'[1].date = getDateString) ]_vars

\* C4 witness: the second run for a date has reported the skip, the snapshot of
\* the first run being in the archive.
C4_Witness ==
  /\ runs >= 2
  /\ report # << >>
  /\ Report.snapshot = "SKIP"
  /\ Report.date \in DOMAIN history

\* C5: a snapshot, once written, keeps its content and is never deleted, whatever
\* update sessions and archive runs follow.
C5_SnapshotsImmutable ==
  [][ \A d \in DOMAIN history : d \in DOMAIN history' /\ history'[d] = history[d] ]_vars

\* C5 witness: a second run for a date found the current store changed since the
\* snapshot was written, and the snapshot is still the one first written.
C5_Witness ==
  /\ report # << >>
  /\ Report.snapshot = "SKIP"
  /\ outcome.result = "Saved"
  /\ Template.overallScore # history[Report.date].overallScore

(* ====================== claims: the update session ==================== *)
\* value (scaled by scale) is num / den rounded to the nearest 1 / scale
IsRounded(value, scale, num, den) ==
  LET diff == value * den - num * scale IN
  2 * (IF diff < 0 THEN 0 - diff ELSE diff) <= den

\* the risk level of an overall score given in tenths
LevelOfTenths(t) ==
  CASE t < 30 -> "Low"
    [] t >= 30 /\ t < 50 -> "Moderate"
    [] t >= 50 /\ t < 70 -> "Elevated"
    [] t >= 70 /\ t < 90 -> "High"
    [] t >= 90 -> "Severe"

\* the aggregates of a store are the Score Model's values for its category scores
ScoreModelHolds(cur) ==
  LET sc(c) == cur.scores[c].score
      ruleOfLaw == sc("elections") + sc("rule-of-law") + sc("national-security")
      operating == sc("regulatory-stability") + sc("trade-policy")
                     + sc("government-contracts") + sc("fiscal-policy")
      societal  == sc("media-freedom") + sc("civil-discourse")
                     + sc("institutional-integrity")
  IN  /\ IsRounded(cur.domainScores["rule-of-law"], 100, ruleOfLaw, 3)
      /\ IsRounded(cur.domainScores["operating-economic"], 100, operating, 4)
      /\ IsRounded(cur.domainScores["societal-institutional"], 100, societal, 3)
      /\ IsRounded(cur.overallScore, 10, ruleOfLaw + operating + societal, 10)
      /\ cur.riskLevel = LevelOfTenths(cur.overallScore)

\* C6: every persisted state of the store has domainScores, overallScore and
\* riskLevel equal to the Score Model applied to its category scores.
C6_PersistedAggregatesConsistent == ScoreModelHolds(current)

\* C6 witness: a session changed the elections score and was saved, and the
\* overall score moved into another risk level.
C6_Witness ==
  /\ outcome.result = "Saved"
  /\ outcome.edited
  /\ current.scores["elections"].score = 7
  /\ current.riskLevel = "Elevated"

\* the responses that decline the save
Declines(r) == r \in { << "n" >>, << "N" >> }

\* C7: the persisted store is written by no step of a session but the answer to
\* the save prompt, and an answer that declines leaves it as it was before the
\* session and ends the session as discarded.
C7_DiscardLeavesStore ==
  [][ /\ (current' # current => pc = "confirm")
      /\ \A r \in ConfirmResponses :
           (Declines(r) /\ AnswerConfirm(r))
             => (current' = current /\ outcome'.result = "Discarded") ]_vars

\* C7 witness: a session with edits in memory has been discarded.
C7_Witness == outcome.result = "Discarded" /\ outcome.edited

\* the score responses that are integer numerals, with their values
NumericResponses ==
  { [ text |-> << "0" >>, value |-> 0 ],
    [ text |-> << "-", "3" >>, value |-> 0 - 3 ],
    [ text |-> << "1", "1" >>, value |-> 11 ],
    [ text |-> << "7" >>, value |-> 7 ] }

Clamped(v) == IF v < 1 THEN 1 ELSE IF v > 10 THEN 10 ELSE v

ScoresInRange(cur) == \A c \in CategoryIds : cur.scores[c].score \in 1..10

\* C8: every category score, in memory and persisted, is an integer in [1,10]
\* after every step; a numeral below 1 sets the score to 1, above 10 to 10,
\* within the range to its value; every score response leads on to the trend
\* prompt.
C8_ScoreClamped ==
  [][ /\ ScoresInRange(current')
      /\ (mem' # << >> => ScoresInRange(mem'[1]))
      /\ \A n \in NumericResponses :
           AnswerScore(n.text)
             => mem'[1].scores[CategoryId].score = Clamped(n.value)
      /\ \A r \in ScoreResponses :
           AnswerScore(r) => (pc' = "trend" /\ outcome' = outcome) ]_vars

\* C8 witness: a response below 1 has set a score of 5 to 1.
C8_Witness ==
  /\ pc = "trend"
  /\ Cat.score = 1
  /\ current.scores[CategoryId].score = 5

\* the trend responses the prompt names: a full word or its first letter
RecognizedTrend(r) ==
  toLowerCase(r) \in
    { << "i" >>, << "s" >>, << "d" >>,
      << "i","n","c","r","e","a","s","i","n","g" >>,
      << "s","t","a","b","l","e" >>,
      << "d","e","c","r","e","a","s","i","n","g" >> }

\* C9 (as claimed): a trend response that is neither a full word nor a single
\* letter i/s/d leaves the trend as it was and leads on to the findings prompt.
C9_UnrecognizedTrendKept ==
  [][ \A r \in TrendResponses :
        (~RecognizedTrend(r) /\ AnswerTrend(r))
          => (mem' = mem /\ pc' = "findingsQ") ]_vars

\* the score responses that are empty or hold no number
NonNumericResponses == { << >>, << "a", "b", "c" >> }

Finishes(r) == r \in { << "q" >>, << "Q" >> }

\* C11: when the selection is finished with nothing selected, the process ends
\* there: no category was edited, nothing is recomputed, the save prompt is not
\* shown and the persisted store is not written.
C11_EmptySelectionEnds ==
  [][ \A r \in SelectResponsesSome :
        (Finishes(r) /\ selected = << >> /\ AnswerSelect(r))
          => /\ pc' = "idle"
             /\ mem = << current >>
             /\ current' = current
             /\ outcome' = [ result |-> "NoSelection", edited |-> FALSE ] ]_vars

\* C11 witness: a session ended at the selection with nothing selected, after
\* responses that selected nothing.
C11_Witness ==
  /\ outcome.result = "NoSelection"
  /\ pc = "idle"
  /\ sessions = 1

(* ======================= claims: the Score Model ====================== *)
RECURSIVE Total(_, _)
\* the sum of the scores of the categories in S
Total(scores, S) ==
  IF S = {} THEN 0
  ELSE LET c == CHOOSE x \in S : TRUE
       IN  scores[c].score + Total(scores, S \ {c})

\* the categories of a domain
DomainMembers(d) ==
  CASE d = "rule-of-law" -> { "elections", "rule-of-law", "national-security" }
    [] d = "operating-economic" ->
         { "regulatory-stability", "trade-policy", "government-contracts",
           "fiscal-policy" }
    [] d = "societal-institutional" ->
         { "media-freedom", "civil-discourse", "institutional-integrity" }

\* C12: for ten integer scores in [1,10] the computed overall score is their
\* arithmetic mean rounded to one decimal place, and lies in [1,10].
C12_OverallIsRoundedMean ==
  pc = "confirm"
    => /\ IsRounded(Mem.overallScore, 10, Total(Mem.scores, CategoryIds), 10)
       /\ Mem.overallScore >= 10
       /\ Mem.overallScore <= 100

\* C12 witness: the overall score of nine scores of 4 and one of 10 was computed.
C12_Witness ==
  /\ pc = "confirm"
  /\ Mem.scores["elections"].score = 10
  /\ Mem.scores["rule-of-law"].score = 4
  /\ Mem.overallScore = 46

\* C13: for ten integer scores in [1,10] each of the three computed domain
\* scores is the arithmetic mean of the domain's category scores rounded to two
\* decimal places.
C13_DomainIsRoundedMean ==
  pc = "confirm"
    => /\ DOMAIN Mem.domainScores
            = { "rule-of-law", "operating-economic", "societal-institutional" }
       /\ \A d \in DOMAIN Mem.domainScores :
            IsRounded(Mem.domainScores[d], 100,
                      Total(Mem.scores, DomainMembers(d)),
                      Cardinality(DomainMembers(d)))

\* C13 witness: a domain score that is rounded up (scores 3, 1, 1: mean 1.67)
\* was computed.
C13_Witness ==
  /\ pc = "confirm"
  /\ Mem.scores["elections"].score = 3
  /\ Mem.scores["rule-of-law"].score = 1
  /\ Mem.domainScores["rule-of-law"] = 167

\* C14: the risk level is a step function of the overall score: below 3 Low,
\* from 3 below 5 Moderate, from 5 below 7 Elevated, from 7 below 9 High, from 9
\* to 10 Severe; so 2.9 is Low, 3.0 Moderate, 8.9 High, 9.0 and 10 Severe.
C14_RiskLevelBins ==
  pc = "confirm"
    => /\ Mem.riskLevel = LevelOfTenths(Mem.overallScore)
       /\ (Mem.overallScore = 29 => Mem.riskLevel = "Low")
       /\ (Mem.overallScore = 30 => Mem.riskLevel = "Moderate")
       /\ (Mem.overallScore = 89 => Mem.riskLevel = "High")
       /\ (Mem.overallScore = 90 => Mem.riskLevel = "Severe")
       /\ (Mem.overallScore = 100 => Mem.riskLevel = "Severe")

\* C14 witness: the level of an overall score on a boundary (3.0) was computed.
C14_Witness ==
  /\ pc = "confirm"
  /\ Mem.overallScore = 30
  /\ Mem.riskLevel = "Moderate"

\* C15: the category-to-domain mapping is a partition of the ten category ids:
\* three domains (those the store keeps a score for), every category id of the
\* store listed exactly once in all of them, and no other id listed.
C15_DomainsPartitionCategories ==
  /\ DOMAIN current.domainScores = DOMAIN DOMAINS
  /\ DOMAIN current.scores = CategoryIds
  /\ Cardinality(CategoryIds) = 10
  /\ DOMAIN DOMAINS = { "rule-of-law", "operating-economic", "societal-institutional" }
  /\ \A c \in CategoryIds :
       Cardinality({ p \in { << d, i >> : d \in DOMAIN DOMAINS, i \in 1..10 } :
                       p[2] <= Len(DOMAINS[p[1]]) /\ DOMAINS[p[1]][p[2]] = c }) = 1
  /\ \A d \in DOMAIN DOMAINS :
       \A i \in 1..Len(DOMAINS[d]) : DOMAINS[d][i] \in CategoryIds

\* C15 witness: the recalculation, for scores that differ in one category only
\* (elections), gave one domain score that differs (rule-of-law).
C15_Witness ==
  /\ pc = "confirm"
  /\ Mem.scores["elections"].score = 8
  /\ \A c \in CategoryIds \ { "elections" } : Mem.scores[c].score = 5
  /\ { d \in DomainIds : Mem.domainScores[d] # 500 } = { "rule-of-law" }

(* ================= claims: the archive run, continued ================= *)
\* C16: a newly written snapshot has the period date, the bare numeric score of
\* every category of the current store, and the store's domainScores,
\* overallScore and riskLevel; it has no other field (no trend, findings,
\* sources or lastUpdated).
C16_SnapshotContent ==
  [][ (runs' = runs + 1 /\ getDateString \notin DOMAIN history)
        => /\ getDateString \in DOMAIN history'
           /\ LET s == history'[getDateString] IN
              /\ DOMAIN s = { "date", "scores", "domainScores", "overallScore",
                              "riskLevel" }
              /\ s.date = getDateString
              /\ DOMAIN s.scores = DOMAIN current.scores
              /\ \A c \in DOMAIN s.scores :
                   s.scores[c] \in 1..10 /\ s.scores[c] = current.scores[c].score
              /\ s.domainScores = current.domainScores
              /\ s.overallScore = current.overallScore
              /\ s.riskLevel = current.riskLevel ]_vars

\* C16 witness: a run wrote the snapshot of a store that a saved session had
\* changed (elections 7).
C16_Witness ==
  /\ report # << >>
  /\ Report.snapshot = "OK"
  /\ outcome.result = "Saved"
  /\ history[Report.date].scores["elections"] = 7
  /\ current.scores["elections"].score = 7

\* C17: a run that finds the snapshot of its period date reports the skip and
\* goes on: every run, whether it wrote the snapshot or skipped it, has updated
\* or skipped the page and printed the change-log template for its period date.
C17_SkipContinuesToTemplate ==
  [][ runs' = runs + 1
        => /\ report' # << >>
           /\ report'[1].snapshot
                = (IF getDateString \in DOMAIN history THEN "SKIP" ELSE "OK")
           /\ DOMAIN report'[1] = { "date", "snapshot", "page", "template" }
           /\ report'[1].template.date = getDateString
           /\ report'[1].template.overallScore = current.overallScore ]_vars

\* C17 witness: a run that skipped the snapshot and the page printed the
\* template for January 2026.
C17_Witness ==
  /\ report # << >>
  /\ Report.snapshot = "SKIP"
  /\ Report.page = "SKIP"
  /\ Template.date = << 2026, 1, 20 >>
  /\ Template.period = << 2026, 1 >>

(* ================ claims: persistence and loading ===================== *)
\* C18 (as claimed): a save is atomic for a reader of the persisted store: every
\* step that changes the store takes it from its complete state before the save
\* to the complete in-memory state, and the store is a complete assessment at
\* every moment.
C18_SaveIsAtomic ==
  [][ /\ DOMAIN current' = DOMAIN current
      /\ current' = current \/ (mem # << >> /\ current' = mem[1]) ]_vars

\* the store has the ten categories, each with a score in [1,10]
ValidStore(cur) ==
  /\ DOMAIN cur.scores = CategoryIds
  /\ \A c \in DOMAIN cur.scores : cur.scores[c].score \in 1..10

\* C19 (as claimed): while the persisted store has a score outside [1,10] (or
\* lacks a category), a script that loads it fails there: no prompt is shown,
\* nothing is kept in memory and no file is written.
C19_CorruptStoreFailsAtLoad ==
  [][ ~ValidStore(current)
        => /\ pc' = "idle"
           /\ mem' = << >>
           /\ current' = current
           /\ history' = history
           /\ page' = page ]_vars

(* ================ claims: the update session, continued =============== *)
\* the trend a recognized response names
TrendNamed(r) ==
  LET lower == toLowerCase(r) IN
  CASE lower \in { << "i" >>, << "i","n","c","r","e","a","s","i","n","g" >> }
         -> "increasing"
    [] lower \in { << "s" >>, << "s","t","a","b","l","e" >> } -> "stable"
    [] lower \in { << "d" >>, << "d","e","c","r","e","a","s","i","n","g" >> }
         -> "decreasing"

\* C20: a trend response that is, in any case of the letters, a full word
\* increasing/stable/decreasing or a single letter i/s/d sets the category's
\* trend to the value it names, and the session goes on to the findings.
C20_TrendAccepted ==
  [][ \A r \in TrendResponses :
        (RecognizedTrend(r) /\ AnswerTrend(r))
          => /\ mem'[1].scores[CategoryId].trend = TrendNamed(r)
             /\ mem'[1] = [ mem[1] EXCEPT !.scores[CategoryId].trend = TrendNamed(r) ]
             /\ pc' = "findingsQ" ]_vars

\* C20 witness: a response has changed the trend from stable to increasing.
C20_Witness ==
  /\ pc = "findingsQ"
  /\ Cat.trend = "increasing"
  /\ current.scores[CategoryId].trend = "stable"

(* ================== claims: the selection of categories =============== *)
\* the selection responses that are a valid number, with the number
ValidNumbers ==
  { [ text |-> << "1" >>, value |-> 1 ],
    [ text |-> << "5" >>, value |-> 5 ],
    [ text |-> << "1", "0" >>, value |-> 10 ],
    [ text |-> << " ", "2" >>, value |-> 2 ],
    [ text |-> << "5", "t", "h" >>, value |-> 5 ] }

\* the selection responses that are neither 0, q, Q nor a valid number
NotANumber == { << "1", "1" >>, << "x" >>, << "-", "1" >> }

Members(seq) == { seq[i] : i \in 1..Len(seq) }
NoDuplicates(seq) == Cardinality(Members(seq)) = Len(seq)

Allowed ==
  { << "idle", "select" >>,
    << "select", "score" >>, << "select", "idle" >>,
    << "score", "trend" >>,
    << "trend", "findingsQ" >>,
    << "findingsQ", "finding" >>, << "findingsQ", "sourcesQ" >>,
    << "finding", "sourcesQ" >>,
    << "findingsQ", "idle" >>, << "finding", "idle" >>,
    << "sourcesQ", "source" >>, << "sourcesQ", "score" >>, << "sourcesQ", "confirm" >>,
    << "source", "score" >>, << "source", "confirm" >>,
    << "confirm", "idle" >> }

\* C22: a session goes from the selection through score, trend, findings and
\* sources of each selected category in turn to the recalculation and the save
\* prompt, and ends saved or discarded (or earlier, with nothing selected or
\* with an error); the persisted store is written only by the saving step, with
\* the in-memory store whose aggregates were recalculated on the way to the
\* save prompt, after the last category.
C22_SessionOrder ==
  [][ /\ pc' # pc => << pc, pc' >> \in Allowed
      /\ (pc = "select" /\ pc' = "score") => idx' = 1
      /\ (pc \in { "sourcesQ", "source" } /\ pc' = "score")
           => (idx < Len(selected) /\ idx' = idx + 1)
      /\ pc \in { "score", "trend", "findingsQ", "finding", "sourcesQ", "source" }
           => (idx' = idx \/ pc' \in { "score", "idle" })
      /\ (pc # "confirm" /\ pc' = "confirm")
           => (idx = Len(selected) /\ ScoreModelHolds(mem'[1]))
      /\ (pc = "idle" /\ pc' = "idle") => current' = current
      /\ (pc = "select" /\ pc' = "idle") => outcome'.result = "NoSelection"
      /\ (pc \in { "findingsQ", "finding" } /\ pc' = "idle") => outcome'.result = "Error"
      /\ pc = "confirm"
           => (pc' = "idle" /\ outcome'.result \in { "Saved", "Discarded" })
      /\ current' # current
           => (pc = "confirm" /\ outcome'.result = "Saved" /\ current' = mem[1]
               /\ ScoreModelHolds(current')) ]_vars

\* C22 witness: a session is at the save prompt after its second category, with
\* an edited score and the overall score recalculated.
C22_Witness ==
  /\ pc = "confirm"
  /\ Len(selected) = 2
  /\ idx = 2
  /\ Mem.scores["elections"].score = 7
  /\ Mem.overallScore # current.overallScore

\* C23: a step of updateCategory changes the fields of its category only; in
\* the saved store a category that was not selected keeps every field, the
\* category ids are those of before, and every selected category has the fields
\* it had and lastUpdated set to the date of the session, whatever was answered.
C23_EditTouchesOneCategory ==
  [][ /\ (pc = "select" /\ mem' # << >>) => mem' = mem
      /\ (pc \in { "score", "trend", "findingsQ", "finding", "sourcesQ", "source" }
          /\ mem' # << >>)
           => /\ DOMAIN mem'[1].scores = DOMAIN mem[1].scores
              /\ \A c \in DOMAIN mem[1].scores :
                   c # CategoryId => mem'[1].scores[c] = mem[1].scores[c]
      /\ (pc = "confirm" /\ outcome'.result = "Saved")
           => /\ DOMAIN current'.scores = DOMAIN current.scores
              /\ \A c \in DOMAIN current.scores :
                   IF c \in Members(selected)
                     THEN /\ current'.scores[c].lastUpdated = getDateStringToday
                          /\ DOMAIN current'.scores[c] = DOMAIN current.scores[c]
                     ELSE current'.scores[c] = current.scores[c] ]_vars

\* C23 witness: a session that selected elections and answered every prompt with
\* Enter was saved: elections carries the date of the session, rule-of-law the
\* date it had.
C23_Witness ==
  /\ outcome = [ result |-> "Saved", edited |-> FALSE ]
  /\ current.scores["elections"].lastUpdated = << 2026, 1, 25 >>
  /\ current.scores["rule-of-law"].lastUpdated = << 2026, 1, 10 >>

\* C26: the answer to the save prompt leaves the store unwritten only when it
\* is n or N; every other answer (Enter, y, no, a blank before the n) writes the
\* in-memory store.
C26_OnlyNDeclines ==
  [][ \A r \in ConfirmResponsesAll :
        AnswerConfirm(r)
          => IF r \in { << "n" >>, << "N" >> }
               THEN current' = current /\ outcome'.result = "Discarded"
               ELSE current' = mem[1] /\ outcome'.result = "Saved" ]_vars

\* C26 witness: a session that set the elections score to 1 was saved.
C26_Witness ==
  /\ pc = "idle"
  /\ outcome = [ result |-> "Saved", edited |-> TRUE ]
  /\ current.scores["elections"].score = 1

\* C29: when the category at hand has no sources, the session ends with an
\* error at the step from its findings to its sources: the sources prompt, the
\* recalculation and the save prompt are not reached, the persisted store is
\* unchanged and the in-memory store is gone.
C29_MissingSourcesAborts ==
  [][ /\ (pc \in { "findingsQ", "finding" } /\ pc' \notin { "findingsQ", "finding" }
          /\ "sources" \notin DOMAIN Cat)
           => /\ pc' = "idle"
              /\ outcome'.result = "Error"
              /\ current' = current
              /\ mem' = << >>
      /\ pc' \in { "sourcesQ", "source" }
           => "sources" \in DOMAIN mem'[1].scores[selected'[idx']] ]_vars

\* C29 witness: a session that had changed the first of its two categories
\* ended with the error at the second, the persisted store being as loaded.
C29_Witness ==
  /\ outcome = [ result |-> "Error", edited |-> TRUE ]
  /\ pc = "idle"
  /\ ~StoreHasSources(current)
  /\ current.scores["elections"] = CategoryScore0("elections")

\* C30 (as claimed): every session that has ended has ended in exactly one of
\* the outcomes NoSelection, Saved and Discarded.
C30_ThreeOutcomes ==
  (pc = "idle" /\ sessions > 0)
    => outcome.result \in { "NoSelection", "Saved", "Discarded" }

(* ================ claims: the archive run and its stores ============== *)
\* the greatest date key of an archive, the keys compared as strings YYYY-MM-DD:
\* by the year, then the month, then the day
MaxDateKey(hist) ==
  LET keys == DOMAIN hist
      y == CHOOSE n \in { d[1] : d \in keys } : \A d \in keys : d[1] <= n
      ofYear == { d \in keys : d[1] = y }
      m == CHOOSE n \in { d[2] : d \in ofYear } : \A d \in ofYear : d[2] <= n
      ofMonth == { d \in ofYear : d[2] = m }
      dd == CHOOSE n \in { d[3] : d \in ofMonth } : \A d \in ofMonth : d[3] <= n
  IN  << y, m, dd >>

\* the bare category scores of a store
BareScores(cur) == [ c \in CategoryIds |-> cur.scores[c].score ]

SnapshotAsStore(s) ==
  [ scores |-> [ c \in DOMAIN s.scores |-> [ score |-> s.scores[c] ] ],
    domainScores |-> s.domainScores,
    overallScore |-> s.overallScore,
    riskLevel |-> s.riskLevel ]

\* C27: the store being changed by saved sessions only, every snapshot of the
\* archive has the domainScores, overallScore and riskLevel of the Score Model
\* for its own scores, whatever sessions and archive runs have taken place.
C27_SnapshotsConsistent ==
  \A d \in DOMAIN history :
    /\ DOMAIN history[d].scores = CategoryIds
    /\ ScoreModelHolds(SnapshotAsStore(history[d]))

\* C27 witness: a snapshot written after a saved session that had raised the
\* elections score, its overall score in another risk level than before.
C27_Witness ==
  /\ << 2026, 1, 20 >> \in DOMAIN history
  /\ history[<< 2026, 1, 20 >>].scores["elections"] = 7
  /\ history[<< 2026, 1, 20 >>].riskLevel = "Elevated"
  /\ outcome.result = "Saved"

\* C28: an archive run leaves the current assessment and the change log as they
\* are; of the archive it changes at most the snapshot of its period date, and
\* besides that only the history page; the change record is output only.
C28_RunWritesSnapshotAndPageOnly ==
  [][ runs' = runs + 1
        => /\ current' = current
           /\ changes' = changes
           /\ DOMAIN history' \subseteq DOMAIN history \cup { getDateString }
           /\ \A d \in DOMAIN history : d \in DOMAIN history' /\ history'[d] = history[d]
           /\ report'[1].template.date = getDateString
           /\ UNCHANGED << today, sessionVars >> ]_vars

\* C28 witness: a run has written its snapshot and the page and printed a
\* template, the change log being empty as before.
C28_Witness ==
  /\ report # << >>
  /\ Report.snapshot = "OK"
  /\ Report.page = "OK"
  /\ Template.date = << 2026, 2, 20 >>
  /\ changes = << >>
  /\ DOMAIN history = { << 2026, 2, 20 >> }

(* ============== claims: two archive runs at the same time ============= *)
\* C25 (as claimed): however two archive runs for the same period date are
\* interleaved, a snapshot that exists is never overwritten and the snapshot of
\* the date is written by at most one of the runs.
C25_NoRaceWindow ==
  [][ /\ \A d \in DOMAIN history : d \in DOMAIN history' /\ history'[d] = history[d]
      /\ \A p, q \in DOMAIN report' :
           (report'[p].log = "OK" /\ report'[q].log = "OK"
            /\ report'[p].date = report'[q].date) => p = q ]_vars

====
